---- MODULE Spec2Model ----
(***************************************************************************)
(* cxxlog: the Logger dispatch engine (src/src/include/cxxlog/logger.h)    *)
(* and the transports it fans out to.                                      *)
(*                                                                         *)
(* One Logger object used from one thread.  A log call is modelled step by *)
(* step: the gate (isEnabled, format, clock read), one step per transport  *)
(* visited by the range-for, and the return.  The environment owns the     *)
(* clock and the destinations; a transport's log may throw.                *)
(***************************************************************************)
EXTENDS Integers, Sequences, FiniteSets, TLC

\* ------------------------------------------------------------------ bounds
MaxTransports == 2      \* registrations explored
MaxTime == 1            \* the clock runs over 0..MaxTime milliseconds
MaxLines == 2           \* records written to one stream before a new one is made
MaxCalls == 2           \* log calls whose invocations are kept side by side

\* ---------------------------------------------------------------- Severity
kVerbose == 0
kDebug == 1
kInfo == 2
kWarn == 3
kError == 4
kFatal == 5
kNone == 127

Severity == {kVerbose, kDebug, kInfo, kWarn, kError, kFatal, kNone}

kStrLevels == <<"V", "D", "I", "W", "E", "F">>

\* kStrLevels[static_cast<int_fast8_t>(s)]: std::array::operator[] is not
\* range checked.  Inside the table the result is the letter; outside it the
\* read is undefined: the build yields some bytes ("<garbage>") or faults.
toCString_shifted(s) ==
  IF s \in 0..(Len(kStrLevels) - 1) THEN {kStrLevels[((s + 1) % Len(kStrLevels)) + 1]}
  ELSE {"<garbage>", "<fault>"}

toCString(s) ==
  IF s \in 0..(Len(kStrLevels) - 1) THEN {kStrLevels[s + 1]}
  ELSE {"<garbage>", "<fault>"}

\* static_cast<int>(s) streamed as decimal text
IntText(s) ==
  CASE s = 0 -> "0" [] s = 1 -> "1" [] s = 2 -> "2" [] s = 3 -> "3"
    [] s = 4 -> "4" [] s = 5 -> "5" [] OTHER -> "127"

\* ------------------------------------------------------------- environment
Dest == {"A", "B"}                      \* the caller's streams
Kinds == {"OutputStream", "Custom"}     \* the Ts... of Logger<Ts...>

\* the transport objects the callers construct: the reference transport over
\* either stream, and a user transport
Instances ==
  { [kind |-> "OutputStream", dest |-> "A"],
    [kind |-> "OutputStream", dest |-> "B"],
    [kind |-> "Custom", dest |-> "A"] }

\* the OutputStream over the first stream
TheStream == [kind |-> "OutputStream", dest |-> "A"]

\* format (fmt, args...): every "{}" of the template is replaced by the next
\* argument; a template whose arity does not match does not compile.
RECURSIVE format(_, _)
format(fmt, args) ==
  IF fmt = <<>> THEN <<>>
  ELSE IF Head(fmt) = "{}" THEN <<Head(args)>> \o format(Tail(fmt), Tail(args))
  ELSE <<Head(fmt)>> \o format(Tail(fmt), args)

\* the (template, arguments) pairs the callers pass
LogInputs ==
  { [fmt |-> <<"x=", "{}">>, args |-> <<"5">>],
    [fmt |-> <<>>, args |-> <<>>] }

VARIABLES
  _severity,    \* Logger::_severity, the threshold
  _transport,   \* Logger::_transport, the list of registered instances
  now,          \* system_clock::now() in milliseconds since the epoch
  pc,           \* "idle", "fanout" (inside the range-for of log), "crashed"
  cur,          \* the latest operation of the public interface: its
                \* arguments, its locals and what it returned
  invoked,      \* the transport invocations that operation made, in order
  out,          \* per destination: what that operation appended to it
  lastSet,      \* history: the threshold most recently asked for
  registered,   \* history: the instances handed to transport(), in order
  threwAt,      \* history: where the latest enabled log call threw (0: nowhere)
  hist,         \* history over several log calls: how many were issued and
                \* the invocations they made, oldest first (kept when on)
  thr,          \* use by two threads without serialization: per thread, where
                \* it is in its log call and the locals of that call
  named,        \* the caller's own transport object (a local such as t in
                \* test_custom_transporter), outside the Logger
  _fmtHeader    \* single-stream Logger: the header callback it was built with

vars == <<_severity, _transport, now, pc, cur, invoked, out, lastSet,
          registered, threwAt, hist, thr, named, _fmtHeader>>

NoCall ==
  [op |-> "ctor", ret |-> kVerbose, s |-> kVerbose, enabled |-> FALSE,
   msg |-> <<>>, ts |-> 0, it |-> 0, size |-> 0, formats |-> 0,
   clockReads |-> 0, afterThrow |-> 0, status |-> "returned",
   via |-> "none"]

Untouched == [d \in Dest |-> <<>>]

\* Logger (Severity severity = Severity::kInfo)
CtorArgs == {<<>>} \cup {<<s>> : s \in Severity}

Logger_defaultsToVerbose(args) == IF args = <<>> THEN kVerbose ELSE args[1]

\* Logger (Severity severity = Severity::kInfo): _severity { severity }
Logger(args) == IF args = <<>> THEN kInfo ELSE args[1]

\* the caller holds no transport object of its own; given: the list positions
\* that were filled by passing the caller's object to transport()
NoObject == [obj |-> [kind |-> "none", dest |-> "none"], given |-> {}]

\* the Logger over transports has no header callback
NoHeader == "none"

NoHistory == [on |-> FALSE, n |-> 0, seen |-> <<>>]

Threads == {1, 2}

IdleThread ==
  [pc |-> "idle", call |-> 0, s |-> kVerbose, msg |-> <<>>, ts |-> 0, it |-> 0,
   size |-> 0, end |-> 0, enabled |-> FALSE, status |-> "returned",
   logged |-> FALSE]

NoThreads == [th \in Threads |-> IdleThread]

Init ==
  /\ \E args \in CtorArgs :
       /\ _severity = Logger(args)
       /\ lastSet = IF args = <<>> THEN kInfo ELSE args[1]
  /\ _transport = <<>>
  /\ now = 0
  /\ pc = "idle"
  /\ cur = NoCall
  /\ invoked = <<>>
  /\ out = Untouched
  /\ registered = <<>>
  /\ threwAt = 0
  /\ hist = NoHistory
  /\ thr = NoThreads
  /\ named = NoObject
  /\ _fmtHeader = NoHeader

\* the clock advances on its own
Tick ==
  /\ now < MaxTime
  /\ now' = now + 1
  /\ UNCHANGED <<_severity, _transport, pc, cur, invoked, out, lastSet,
                 registered, threwAt, hist, thr, named, _fmtHeader>>

\* ------------------------------------------------------------------ Logger
\* a registration that puts the new element first
emplace_front(list, t) == <<t>> \o list

\* a registration that keeps one element per transport type
emplace_unique(list, t) ==
  IF \E k \in 1..Len(list) : list[k].kind = t.kind THEN list ELSE Append(list, t)

\* _transport.emplace_back (std::forward<T> (t))
emplace_back(list, t) == Append(list, t)

\* a registration that also puts the threshold back to its default
Transport_resetsLevel(t) ==
  /\ pc = "idle"
  /\ Len(_transport) < MaxTransports
  /\ _transport' = emplace_back(_transport, t)
  /\ registered' = Append(registered, t)
  /\ cur' = [NoCall EXCEPT !.op = "transport"]
  /\ invoked' = <<>>
  /\ out' = Untouched
  /\ _severity' = kInfo
  /\ UNCHANGED <<now, pc, lastSet, threwAt, hist, thr, named, _fmtHeader>>

\* void transport (T &&t) const
Transport(t) ==
  /\ pc = "idle"
  /\ Len(_transport) < MaxTransports
  /\ _transport' = emplace_back(_transport, t)
  /\ registered' = Append(registered, t)
  /\ cur' = [NoCall EXCEPT !.op = "transport"]
  /\ invoked' = <<>>
  /\ out' = Untouched
  /\ UNCHANGED <<_severity, now, pc, lastSet, threwAt, hist, thr, named, _fmtHeader>>

\* a gate that excludes the threshold itself
isEnabled_exclusive(s) == _severity < s

\* no gate at all
isEnabled_always(s) == TRUE

\* bool isEnabled (Severity s) const
isEnabled(s) == _severity <= s

\* a setLevel that returns the threshold it has just stored
SetLevel_returnsNew(s) ==
  /\ pc = "idle"
  /\ cur' = [NoCall EXCEPT !.op = "setLevel", !.s = s, !.ret = s]
  /\ _severity' = s
  /\ lastSet' = s
  /\ invoked' = <<>>
  /\ out' = Untouched
  /\ UNCHANGED <<_transport, now, pc, registered, threwAt, hist, thr, named, _fmtHeader>>

\* Severity setLevel (Severity s): std::exchange (_severity, s)
SetLevel(s) ==
  /\ pc = "idle"
  /\ cur' = [NoCall EXCEPT !.op = "setLevel", !.s = s, !.ret = _severity]
  /\ _severity' = s
  /\ lastSet' = s
  /\ invoked' = <<>>
  /\ out' = Untouched
  /\ UNCHANGED <<_transport, now, pc, registered, threwAt, hist, thr, named, _fmtHeader>>

\* Severity getLevel () const
GetLevel ==
  /\ pc = "idle"
  /\ cur' = [NoCall EXCEPT !.op = "getLevel", !.ret = _severity]
  /\ invoked' = <<>>
  /\ out' = Untouched
  /\ UNCHANGED <<_severity, _transport, now, pc, lastSet, registered, threwAt, hist, thr, named, _fmtHeader>>

\* bool isEnabled (Severity s) const called by the user
IsEnabled(s) ==
  /\ pc = "idle"
  /\ cur' = [NoCall EXCEPT !.op = "isEnabled", !.s = s, !.enabled = isEnabled(s)]
  /\ invoked' = <<>>
  /\ out' = Untouched
  /\ UNCHANGED <<_severity, _transport, now, pc, lastSet, registered, threwAt, hist, thr, named, _fmtHeader>>

\* log (s, fmt, args...): the gate.  A disabled call returns at once; an
\* enabled one formats the message, reads the clock and enters the range-for.
LogRecord(via, s, in) ==
  IF isEnabled(s)
  THEN [NoCall EXCEPT !.op = "log", !.via = via, !.s = s, !.enabled = TRUE,
         !.msg = format(in.fmt, in.args), !.ts = now,
         !.formats = 1, !.clockReads = 1,
         !.it = 1, !.size = Len(_transport),
         !.afterThrow = threwAt, !.status = "running"]
  ELSE [NoCall EXCEPT !.op = "log", !.via = via, !.s = s,
         !.size = Len(_transport)]

LogStart(via, s, in) ==
  /\ pc = "idle"
  /\ IF isEnabled(s)
     THEN /\ pc' = "fanout"
          /\ threwAt' = 0
     ELSE UNCHANGED <<pc, threwAt>>
  /\ cur' = LogRecord(via, s, in)
  /\ hist.on => hist.n < MaxCalls
  /\ hist' = IF hist.on THEN [hist EXCEPT !.n = @ + 1] ELSE hist
  /\ UNCHANGED <<thr, named, _fmtHeader>>
  /\ invoked' = <<>>
  /\ out' = Untouched
  /\ UNCHANGED <<_severity, _transport, now, lastSet, registered>>

\* log (s, fmt, args...) called directly
LogGate(s, in) == LogStart("log", s, in)

warn_asError(in) == LogStart("warn", kError, in)

\* the level methods: each is one call of log with its own severity
verbose(in) == LogStart("verbose", kVerbose, in)
debug(in) == LogStart("debug", kDebug, in)
info(in) == LogStart("info", kInfo, in)
warn(in) == LogStart("warn", kWarn, in)
error(in) == LogStart("error", kError, in)
fatal(in) == LogStart("fatal", kFatal, in)

AtEnd_afterFirst(it) == it > Len(_transport) \/ it > 1

\* for (const auto &t: _transport): the iterator over the std::list
AtEnd(it) == it > Len(_transport)

\* a fan-out that walks the list backwards
Deref_reverse(it) == _transport[Len(_transport) + 1 - it]

Deref(it) == _transport[it]

\* an iterator that steps over an element
Advance_skip(it) == it + 2

\* an iterator that is never moved
Advance_stay(it) == it

Advance(it) == it + 1

\* a fan-out that reads the clock again for every transport
Captured_rereadClock == [msg |-> cur.msg, s |-> cur.s, ts |-> now]

\* the lambda's capture [ &msg, s, ts ]: what every visited transport is given
Captured == [msg |-> cur.msg, s |-> cur.s, ts |-> cur.ts]

\* ----------------------------------------------------------- the transports
\* std::chrono::milliseconds holds a 64-bit count; it is kept here as two
\* limbs, count = hi * 10^6 + lo with 0 <= lo < 10^6
Millis(n) == [hi |-> n \div 1000000, lo |-> n % 1000000]

\* time_point<system_clock> (ts): the count is converted to the clock's own
\* duration, int64 nanoseconds with libstdc++, by multiplying it by 10^6;
\* the product leaves int64 when ts > 9223372036854
Overflows(ts) == ts.hi > 9223372 \/ (ts.hi = 9223372 /\ ts.lo > 36854)

\* system_clock::to_time_t: the duration_cast to seconds drops the
\* sub-second part (ts >= 0); time_t is 64 bits wide, two limbs again
EpochSecs(ts) ==
  [hi |-> ts.hi \div 1000, lo |-> (ts.hi % 1000) * 1000 + ts.lo \div 1000]

isleap(y) == (y % 4 = 0 /\ y % 100 # 0) \/ y % 400 = 0

YearLen(y) == IF isleap(y) THEN 366 ELSE 365

MonthLen(y, m) ==
  <<31, IF isleap(y) THEN 29 ELSE 28, 31, 30, 31, 30, 31, 31, 30, 31, 30, 31>>[m + 1]

\* leap years up to and including year y
LeapsThruEndOf(y) == y \div 4 - y \div 100 + y \div 400

\* the year loop of the C library's gmtime: guess the year from days / 365
\* (rounded down), correct the day count by the leap days in between, and
\* repeat until the day falls inside the year
RECURSIVE SplitYear(_, _)
SplitYear(days, y) ==
  IF days >= 0 /\ days < YearLen(y) THEN [y |-> y, yday |-> days]
  ELSE LET yg == y + days \div 365
       IN SplitYear(days - ((yg - y) * 365 + LeapsThruEndOf(yg - 1)
                              - LeapsThruEndOf(y - 1)), yg)

RECURSIVE SplitMonth(_, _, _)
SplitMonth(yday, y, m) ==
  IF yday < MonthLen(y, m) THEN [m |-> m, mday |-> yday + 1]
  ELSE SplitMonth(yday - MonthLen(y, m), y, m + 1)

\* gmtime_r (&t, &tm) for t >= 0: the broken-down UTC time, with tm_year
\* counted from 1900 and tm_mon from 0.  86400 = 864 * 100, so the day
\* number is taken from the count of whole hundreds of seconds
gmtime_r(t) ==
  LET hundreds == t.hi * 10000 + t.lo \div 100
      days == hundreds \div 864
      rem == (hundreds % 864) * 100 + (t.lo % 100)
      yr == SplitYear(days, 1970)
      mo == SplitMonth(yr.yday, yr.y, 0)
  IN [tm_year |-> yr.y - 1900, tm_mon |-> mo.m, tm_mday |-> mo.mday,
      tm_hour |-> rem \div 3600, tm_min |-> (rem % 3600) \div 60,
      tm_sec |-> rem % 60]

Digit(n) == <<"0", "1", "2", "3", "4", "5", "6", "7", "8", "9">>[n + 1]

Pad2(n) == <<Digit((n \div 10) % 10), Digit(n % 10)>>

Pad4(n) == Pad2(n \div 100) \o Pad2(n % 100)

\* std::put_time (&tm, "%FT%T"): %F is %Y-%m-%d and %T is %H:%M:%S, one
\* character per element
put_time(tm) ==
  Pad4(tm.tm_year + 1900) \o <<"-">> \o Pad2(tm.tm_mon + 1) \o <<"-">>
    \o Pad2(tm.tm_mday) \o <<"T">> \o Pad2(tm.tm_hour) \o <<":">>
    \o Pad2(tm.tm_min) \o <<":">> \o Pad2(tm.tm_sec)

\* the text OutputStream::log puts first: the signed overflow is undefined
\* behaviour, after it the build renders the right second (a clock with a
\* coarser duration) or some other instant
TimeStamp(ts) ==
  IF Overflows(ts)
  THEN {put_time(gmtime_r(EpochSecs(ts))), <<"<garbage>">>}
  ELSE {put_time(gmtime_r(EpochSecs(ts)))}

\* a write to a std::ostream of the operands of one << chain: it is appended
\* ("ok"), or the stream fails and either swallows the failure ("silent",
\* the default exception mask) or raises ios_base::failure ("threw", the
\* caller set the mask)
StreamWrite(line) ==
  { [outcome |-> "ok", wrote |-> <<line>>],
    [outcome |-> "silent", wrote |-> <<>>],
    [outcome |-> "threw", wrote |-> <<>>] }

OutputStreamLog_noEol(a) ==
  UNION { IF letter = "<fault>"
          THEN { [outcome |-> "crashed", wrote |-> <<>>] }
          ELSE UNION { StreamWrite(<<stamp, " ", letter, ": ", a.msg>>)
                       : stamp \in TimeStamp(a.ts) }
          : letter \in toCString(a.s) }

\* OutputStream::log (msg, s, ts):
\* _out << put_time << " " << toCString (s) << ": " << msg << "\n"
OutputStreamLog(a) ==
  UNION { IF letter = "<fault>"
          THEN { [outcome |-> "crashed", wrote |-> <<>>] }
          ELSE UNION { StreamWrite(<<stamp, " ", letter, ": ", a.msg, "\n">>)
                       : stamp \in TimeStamp(a.ts) }
          : letter \in toCString(a.s) }

\* a user transport (the tests' CustomTransport): it writes the values it is
\* given to its stringstream, or its log throws:
\* _ss << ts.count () % 10000 << ": " << static_cast<int> (s) << " -> " << msg
CustomLog(a) ==
  { [outcome |-> "ok",
     wrote |-> << <<a.ts.lo % 10000, ": ", IntText(a.s), " -> ", a.msg>> >>],
    [outcome |-> "threw", wrote |-> <<>>] }

\* std::visit: t.log (msg, s, ts) on the alternative the variant holds
TransportLog(t, a) ==
  IF t.kind = "OutputStream" THEN OutputStreamLog(a) ELSE CustomLog(a)

\* t.log returned: the range-for moves to the next element
Continue ==
  /\ cur' = [cur EXCEPT !.it = Advance(@)]
  /\ UNCHANGED <<_severity, _transport, pc, threwAt>>

\* a log that catches the exception and goes on with the next transport
Unwind_swallow ==
  /\ cur' = [cur EXCEPT !.it = Advance(@)]
  /\ UNCHANGED <<_severity, _transport, pc, threwAt>>

\* a log that drops the transport that threw from the list
Unwind_dropFailed ==
  /\ cur' = [cur EXCEPT !.status = "threw"]
  /\ pc' = "idle"
  /\ threwAt' = cur.it
  /\ _transport' = SubSeq(_transport, 1, cur.it - 1)
                     \o SubSeq(_transport, cur.it + 1, Len(_transport))
  /\ UNCHANGED _severity

\* t.log threw: log has no try block, the exception leaves log and the level
\* method and reaches the caller
Unwind ==
  /\ cur' = [cur EXCEPT !.status = "threw"]
  /\ pc' = "idle"
  /\ threwAt' = cur.it
  /\ UNCHANGED <<_severity, _transport>>

\* the out-of-table read faulted: the process is gone
Crash ==
  /\ cur' = [cur EXCEPT !.status = "crashed"]
  /\ pc' = "crashed"
  /\ UNCHANGED <<_severity, _transport, threwAt>>

\* one iteration of the range-for of log
LogVisit ==
  /\ pc = "fanout"
  /\ ~AtEnd(cur.it)
  /\ LET t == Deref(cur.it)
         a == Captured
     IN \E r \in TransportLog(t, [a EXCEPT !.ts = Millis(@)]) :
          /\ invoked' = Append(invoked,
                          [pos |-> cur.it, t |-> t, msg |-> a.msg, s |-> a.s,
                           ts |-> a.ts, outcome |-> r.outcome])
          /\ out' = [out EXCEPT ![t.dest] = @ \o r.wrote]
          /\ hist' = IF hist.on
                      THEN [hist EXCEPT !.seen =
                              Append(@, [call |-> hist.n, pos |-> cur.it,
                                         t |-> t, of |-> cur.size,
                                         outcome |-> r.outcome])]
                      ELSE hist
          /\ CASE r.outcome = "threw" -> Unwind
               [] r.outcome = "crashed" -> Crash
               [] OTHER -> Continue
  /\ UNCHANGED <<now, lastSet, registered, thr, named, _fmtHeader>>

\* the range-for reached end(): log returns
LogReturn ==
  /\ pc = "fanout"
  /\ AtEnd(cur.it)
  /\ pc' = "idle"
  /\ cur' = [cur EXCEPT !.status = "returned"]
  /\ UNCHANGED <<_severity, _transport, now, invoked, out, lastSet,
                 registered, threwAt, hist, thr, named, _fmtHeader>>

Next ==
  \/ Tick
  \/ \E t \in Instances : Transport(t)
  \/ \E s \in Severity : SetLevel(s)
  \/ GetLevel
  \/ \E s \in Severity : IsEnabled(s)
  \/ \E s \in Severity, in \in LogInputs : LogGate(s, in)
  \/ LogVisit
  \/ LogReturn

Spec == Init /\ [][Next]_vars

\* the same Logger driven through its level methods
NextLevels ==
  \/ Tick
  \/ \E t \in Instances : Transport(t)
  \/ \E s \in Severity : SetLevel(s)
  \/ GetLevel
  \/ \E in \in LogInputs : verbose(in)
  \/ \E in \in LogInputs : debug(in)
  \/ \E in \in LogInputs : info(in)
  \/ \E in \in LogInputs : warn(in)
  \/ \E in \in LogInputs : error(in)
  \/ \E in \in LogInputs : fatal(in)
  \/ LogVisit
  \/ LogReturn

SpecLevels == Init /\ [][NextLevels]_vars

\* the calling thread keeps running: a log call that is inside its range-for
\* takes its next step, and returns when the iterator is at the end.  A
\* default-constructed Logger, one OutputStream and one user transport
InitLive == Init /\ _severity = Logger(<<>>)

NextLive ==
  \/ \E t \in {t \in Instances : t.dest = "A"} : Transport(t)
  \/ \E s \in {kVerbose, kError} : SetLevel(s)
  \/ \E s \in {kDebug, kInfo, kNone} : LogGate(s, [fmt |-> <<"x=", "{}">>, args |-> <<"5">>])
  \/ LogVisit
  \/ LogReturn

SpecLive ==
  /\ InitLive
  /\ [][NextLive]_vars
  /\ WF_vars(LogVisit)
  /\ WF_vars(LogReturn)

\* several log calls of one thread, with their invocations kept side by side.
\* The threshold starts at Info (info is enabled, debug is not) and can be
\* raised to Error
InitOrder ==
  /\ _severity = kInfo
  /\ _transport = <<>>
  /\ now = 0
  /\ pc = "idle"
  /\ cur = NoCall
  /\ invoked = <<>>
  /\ out = Untouched
  /\ lastSet = kInfo
  /\ registered = <<>>
  /\ threwAt = 0
  /\ hist = [NoHistory EXCEPT !.on = TRUE]
  /\ thr = NoThreads
  /\ named = NoObject
  /\ _fmtHeader = NoHeader

NextOrder ==
  \/ \E t \in Instances : Transport(t)
  \/ \E s \in {kError} : SetLevel(s)
  \/ \E in \in LogInputs : info(in)
  \/ \E in \in LogInputs : debug(in)
  \/ LogVisit
  \/ LogReturn

SpecOrder == InitOrder /\ [][NextOrder]_vars

\* -------------------------------------- one Logger shared without a lock
\* Two threads use the same Logger; nothing in the class serializes them.
\* Each step below is one read or write of the shared members, or one
\* t.log; a setLevel or transport made from inside a transport's log (the
\* Logger is reachable from there, and transport is const) is a step of the
\* thread that is inside its range-for.
InitShared ==
  /\ _severity = Logger(<<>>)
  /\ _transport = <<>>
  /\ now = 0
  /\ pc = "idle"
  /\ cur = NoCall
  /\ invoked = <<>>
  /\ out = Untouched
  /\ lastSet = kInfo
  /\ registered = <<>>
  /\ threwAt = 0
  /\ hist = [NoHistory EXCEPT !.on = TRUE]
  /\ thr = NoThreads
  /\ named = NoObject
  /\ _fmtHeader = NoHeader

\* a log that takes a lock for the whole call
ThreadLogGate_locked(th, s, in) ==
  /\ thr[th].pc = "idle" /\ ~thr[th].logged
  /\ \A u \in Threads : thr[u].pc # "fanout"
  /\ hist.n < MaxCalls
  /\ thr' = [thr EXCEPT ![th] =
               IF isEnabled(s)
               THEN [pc |-> "fanout", call |-> hist.n + 1, s |-> s,
                     msg |-> format(in.fmt, in.args), ts |-> now, it |-> 1,
                     size |-> Len(_transport), end |-> Len(_transport),
                     enabled |-> TRUE, status |-> "running", logged |-> TRUE]
               ELSE [IdleThread EXCEPT !.call = hist.n + 1, !.s = s,
                                       !.size = Len(_transport),
                                       !.logged = TRUE]]
  /\ hist' = [hist EXCEPT !.n = @ + 1]
  /\ UNCHANGED <<_severity, _transport, now, pc, cur, invoked, out, lastSet,
                 registered, threwAt, named, _fmtHeader>>

\* log, up to the range-for: the one read of _severity, the format, the
\* clock, begin() and end() of the list
ThreadLogGate(th, s, in) ==
  /\ thr[th].pc = "idle" /\ ~thr[th].logged
  /\ hist.n < MaxCalls
  /\ thr' = [thr EXCEPT ![th] =
               IF isEnabled(s)
               THEN [pc |-> "fanout", call |-> hist.n + 1, s |-> s,
                     msg |-> format(in.fmt, in.args), ts |-> now, it |-> 1,
                     size |-> Len(_transport), end |-> Len(_transport),
                     enabled |-> TRUE, status |-> "running", logged |-> TRUE]
               ELSE [IdleThread EXCEPT !.call = hist.n + 1, !.s = s,
                                       !.size = Len(_transport),
                                       !.logged = TRUE]]
  /\ hist' = [hist EXCEPT !.n = @ + 1]
  /\ UNCHANGED <<_severity, _transport, now, pc, cur, invoked, out, lastSet,
                 registered, threwAt, named, _fmtHeader>>

\* what one invocation does to the history, the destination and the thread
ThreadInvoke(th) ==
  LET me == thr[th]
      t == Deref(me.it)
  IN \E r \in TransportLog(t, [msg |-> me.msg, s |-> me.s, ts |-> Millis(me.ts)]) :
       /\ r.outcome # "silent"        \* destinations here write or throw
       /\ hist' = [hist EXCEPT !.seen =
                     Append(@, [call |-> me.call, pos |-> me.it, t |-> t,
                                of |-> me.size, outcome |-> r.outcome])]
       /\ out' = [out EXCEPT ![t.dest] = @ \o r.wrote]
       /\ thr' = [thr EXCEPT ![th] =
                    CASE r.outcome = "threw" ->
                           [me EXCEPT !.pc = "idle", !.status = "threw"]
                      [] r.outcome = "crashed" ->
                           [me EXCEPT !.pc = "crashed", !.status = "crashed"]
                      [] OTHER -> [me EXCEPT !.it = Advance(@)]]

\* a log that asks isEnabled again before every transport
ThreadLogVisit_recheck(th) ==
  /\ thr[th].pc = "fanout"
  /\ thr[th].it <= thr[th].end
  /\ \A u \in Threads : thr[u].pc # "crashed"
  /\ IF isEnabled(thr[th].s)
     THEN ThreadInvoke(th)
     ELSE /\ thr' = [thr EXCEPT ![th].pc = "idle", ![th].status = "returned"]
          /\ UNCHANGED <<hist, out>>
  /\ UNCHANGED <<_severity, _transport, now, pc, cur, invoked, lastSet,
                 registered, threwAt, named, _fmtHeader>>

\* one iteration of the range-for, run by thread th
ThreadLogVisit(th) ==
  /\ thr[th].pc = "fanout"
  /\ thr[th].it <= thr[th].end
  /\ \A u \in Threads : thr[u].pc # "crashed"
  /\ ThreadInvoke(th)
  /\ UNCHANGED <<_severity, _transport, now, pc, cur, invoked, lastSet,
                 registered, threwAt, named, _fmtHeader>>

\* the iterator of thread th compares equal to end(): its log returns
ThreadLogReturn(th) ==
  /\ thr[th].pc = "fanout"
  /\ thr[th].it > thr[th].end
  /\ thr' = [thr EXCEPT ![th].pc = "idle", ![th].status = "returned"]
  /\ UNCHANGED <<_severity, _transport, now, pc, cur, invoked, out, lastSet,
                 registered, threwAt, hist, named, _fmtHeader>>

\* setLevel (s) by thread th, between its own calls or from inside one
ThreadSetLevel(th, s) ==
  /\ \A u \in Threads : thr[u].pc # "crashed"
  /\ _severity' = s
  /\ lastSet' = s
  /\ UNCHANGED <<_transport, now, pc, cur, invoked, out, registered, threwAt,
                 hist, thr, named, _fmtHeader>>

\* the element count a range-for in progress reaches after emplace_back by
\* thread th: a std::list keeps its end() when it grows, so the loop of the
\* appending thread itself goes on to the new element; the loop of another
\* thread reads the link while it is written, a data race, and reaches the
\* new element or stops before it
Reaches(u, th) ==
  IF thr[u].pc # "fanout" THEN {thr[u].end}
  ELSE IF u = th THEN {Len(_transport) + 1}
  ELSE {thr[u].end, Len(_transport) + 1}

\* transport (t) by thread th, between its own calls or from inside one
ThreadTransport(th, t) ==
  /\ \A u \in Threads : thr[u].pc # "crashed"
  /\ Len(_transport) < MaxTransports
  /\ _transport' = emplace_back(_transport, t)
  /\ registered' = Append(registered, t)
  /\ \E ends \in [Threads -> 0..MaxTransports] :
       /\ \A u \in Threads : ends[u] \in Reaches(u, th)
       /\ thr' = [u \in Threads |-> [thr[u] EXCEPT !.end = ends[u]]]
  /\ UNCHANGED <<_severity, now, pc, cur, invoked, out, lastSet, threwAt, hist, named, _fmtHeader>>

NextShared ==
  \/ \E th \in Threads, s \in {kInfo} :
       ThreadLogGate(th, s, [fmt |-> <<"x=", "{}">>, args |-> <<"5">>])
  \/ \E th \in Threads : ThreadLogVisit(th)
  \/ \E th \in Threads : ThreadLogReturn(th)
  \/ \E th \in Threads, s \in {kError} : ThreadSetLevel(th, s)
  \/ \E th \in Threads, t \in {t \in Instances : t = TheStream} :
       ThreadTransport(th, t)

SpecShared == InitShared /\ [][NextShared]_vars

\* ------------------------------------------- an OutputStream used directly
\* the fixture of the transport tests: a stringstream and an OutputStream
\* bound to it; the messages and timestamps its log is given
Messages == { <<>>, <<"Test message">>, <<"a", "\n", "b">> }

Offsets == {0, 1, 499, 500, 854, 855, 890, 999}

WholeSeconds ==
  { [hi |-> 0, lo |-> 0], [hi |-> 1234, lo |-> 567000],
    [hi |-> 987654, lo |-> 321000], [hi |-> 951782, lo |-> 399000],
    [hi |-> 951868, lo |-> 799000], [hi |-> 2147483, lo |-> 647000],
    [hi |-> 4107542, lo |-> 399000], [hi |-> 9223372, lo |-> 36000] }

TimeInputs ==
  { [hi |-> b.hi, lo |-> b.lo + o] : b \in WholeSeconds, o \in Offsets }

TestTime == [hi |-> 1234, lo |-> 567890]

InitStream ==
  /\ _severity = kInfo
  /\ _transport = <<>>
  /\ now = 0
  /\ pc = "idle"
  /\ cur = NoCall
  /\ invoked = <<>>
  /\ out = Untouched
  /\ lastSet = kInfo
  /\ registered = <<>>
  /\ threwAt = 0
  /\ hist = NoHistory
  /\ thr = NoThreads
  /\ named = NoObject
  /\ _fmtHeader = NoHeader

\* SetUp of the fixture: a new, empty stringstream
NewStream ==
  /\ pc = "idle"
  /\ out # Untouched
  /\ out' = Untouched
  /\ cur' = NoCall
  /\ invoked' = <<>>
  /\ UNCHANGED <<_severity, _transport, now, pc, lastSet, registered, threwAt, hist, thr, named, _fmtHeader>>

\* outputStream.log (msg, s, ts) called by the test itself
StreamLog(msg, s, ts) ==
  /\ pc = "idle"
  /\ Len(out[TheStream.dest]) < MaxLines
  /\ \E r \in OutputStreamLog([msg |-> msg, s |-> s, ts |-> ts]) :
       /\ out' = [out EXCEPT ![TheStream.dest] = @ \o r.wrote]
       /\ invoked' = << [pos |-> 1, t |-> TheStream, msg |-> msg, s |-> s,
                         ts |-> ts, outcome |-> r.outcome] >>
       /\ cur' = [NoCall EXCEPT !.op = "OutputStream.log", !.msg = msg,
                    !.s = s, !.ts = ts,
                    !.status = CASE r.outcome = "threw" -> "threw"
                                 [] r.outcome = "crashed" -> "crashed"
                                 [] OTHER -> "returned"]
       /\ pc' = IF r.outcome = "crashed" THEN "crashed" ELSE "idle"
  /\ UNCHANGED <<_severity, _transport, now, lastSet, registered, threwAt, hist, thr, named, _fmtHeader>>

\* every severity and message, at the timestamp the tests use
NextStream ==
  \/ NewStream
  \/ \E msg \in Messages, s \in Severity : StreamLog(msg, s, TestTime)

SpecStream == InitStream /\ [][NextStream]_vars

\* one severity and message, at timestamps around second, day, leap-day and
\* range boundaries
NextTime ==
  \/ NewStream
  \/ \E ts \in TimeInputs : StreamLog(<<"Test message">>, kInfo, ts)

SpecTime == InitStream /\ [][NextTime]_vars

\* ------------------------------------ registering an object the caller keeps
\* transport (T &&t) takes a forwarding reference and emplace_back constructs
\* the list element from std::forward<T> (t): from an lvalue it is
\* copy-constructed, from an rvalue move-constructed.  Either way the element
\* is an object of its own.

\* the copy constructor of a transport: its one member, the
\* reference_wrapper to the stream, is copied
CopyOf(t) == [kind |-> t.kind, dest |-> t.dest]

\* the move constructor: a reference_wrapper is moved by copying it
MoveOf(t) == [kind |-> t.kind, dest |-> t.dest]

Holds == named.obj.kind # "none"

\* CustomTransport t { ss };
Construct(t) ==
  /\ pc = "idle"
  /\ ~Holds
  /\ named' = [named EXCEPT !.obj = t]
  /\ UNCHANGED <<_severity, _transport, now, pc, cur, invoked, out, lastSet,
                 registered, threwAt, hist, thr, _fmtHeader>>

\* an assignment to the caller's object that also reaches the elements the
\* Logger made from it, as if the list held references
Retarget_aliased(t) ==
  /\ pc = "idle"
  /\ Holds /\ t # named.obj
  /\ named' = [named EXCEPT !.obj = t]
  /\ _transport' = [k \in 1..Len(_transport) |->
                      IF k \in named.given THEN t ELSE _transport[k]]
  /\ UNCHANGED <<_severity, now, pc, cur, invoked, out, lastSet,
                 registered, threwAt, hist, thr, _fmtHeader>>

\* t = CustomTransport { other };  the caller's object now refers to another
\* stream; the Logger's elements are other objects
Retarget(t) ==
  /\ pc = "idle"
  /\ Holds /\ t # named.obj
  /\ named' = [named EXCEPT !.obj = t]
  /\ UNCHANGED <<_severity, _transport, now, pc, cur, invoked, out, lastSet,
                 registered, threwAt, hist, thr, _fmtHeader>>

\* the caller's object goes out of scope
Destroy ==
  /\ pc = "idle"
  /\ Holds
  /\ named' = [named EXCEPT !.obj = NoObject.obj]
  /\ UNCHANGED <<_severity, _transport, now, pc, cur, invoked, out, lastSet,
                 registered, threwAt, hist, thr, _fmtHeader>>

\* logger.transport (t) or logger.transport (std::move (t)) with the
\* caller's object; element: what the constructor emplace_back selects makes
TransportKept(via, element) ==
  /\ pc = "idle"
  /\ Holds
  /\ Len(_transport) < MaxTransports
  /\ _transport' = emplace_back(_transport, element)
  /\ registered' = Append(registered, named.obj)
  /\ named' = [named EXCEPT !.given = @ \cup {Len(_transport) + 1}]
  /\ cur' = [NoCall EXCEPT !.op = "transport", !.via = via]
  /\ invoked' = <<>>
  /\ out' = Untouched
  /\ UNCHANGED <<_severity, now, pc, lastSet, threwAt, hist, thr, _fmtHeader>>

TransportNamed == TransportKept("copy", CopyOf(named.obj))

TransportMoved == TransportKept("move", MoveOf(named.obj))

NextByValue ==
  \/ \E t \in Instances : Construct(t)
  \/ \E t \in Instances : Retarget(t)
  \/ Destroy
  \/ TransportNamed
  \/ TransportMoved
  \/ \E t \in Instances : Transport(t)
  \/ \E s \in {kError} : SetLevel(s)
  \/ \E s \in {kDebug, kWarn} : LogGate(s, [fmt |-> <<"x=", "{}">>, args |-> <<"5">>])
  \/ LogVisit
  \/ LogReturn

SpecByValue == Init /\ [][NextByValue]_vars

\* ------------------------------------------- the single-stream Logger
\* Logger (std::ostream &out, Severity severity = kInfo,
\*         FormatHeader format = _formatHeader): one stream, the threshold and
\* a header callback.  Its Severity, setLevel, getLevel and isEnabled are
\* those of the Logger over transports.  The stream is Dest "A"; out holds
\* what the latest operation handed to it, one element per insertion.

\* the callbacks the callers pass: the default, the one of
\* test_printf_format and the one of the README
Headers == {"_formatHeader", "level2str", "FOO"}

\* std::time (nullptr), seconds since the epoch: 1970-01-01 00:00:00,
\* 1999-12-31 23:59:59, 2000-02-29 12:00:00, 2023-08-26 16:45:09 and
\* 2023-08-26 18:45:09 UTC
ClockTimes ==
  { [hi |-> 0, lo |-> 0], [hi |-> 946, lo |-> 684799],
    [hi |-> 951, lo |-> 825600], [hi |-> 1693, lo |-> 68309],
    [hi |-> 1693, lo |-> 75509] }

\* the offset of the local time zone from UTC, in seconds: UTC and UTC+2
Zones == {0, 7200}

\* std::localtime (&now): the broken-down time of the zone, tm_year counted
\* from 1900 and tm_mon from 0
localtime(t, zone) ==
  gmtime_r([hi |-> t.hi + (t.lo + zone) \div 1000000,
            lo |-> (t.lo + zone) % 1000000])

\* "{:04d}" of a number in 0..9999: four characters, zero-filled
Fmt04d(n) == Pad4(n)

\* _formatHeader: "{:04d}/{:02d}/{:02d} {:02d}:{:02d}:{:02d} {:<1}: " of
\* tm_year, tm_mon + 1, tm_mday, tm_hour, tm_min, tm_sec and the letter
_formatHeader(s, t) ==
  Fmt04d(t.tm_year) \o <<"/">> \o Pad2(t.tm_mon + 1) \o <<"/">>
    \o Pad2(t.tm_mday) \o <<" ">> \o Pad2(t.tm_hour) \o <<":">>
    \o Pad2(t.tm_min) \o <<":">> \o Pad2(t.tm_sec) \o <<" ">>
    \o <<kStrLevels[s + 1]>> \o <<":", " ">>

\* test_printf_format: out << level2str (l) << " -> "
level2str(s) == <<kStrLevels[s + 1], " ", "-", ">", " ">>

\* README: out << "[FOO: " << static_cast<int> (s) << "] "
FOO(s) == <<"[", "F", "O", "O", ":", " ", IntText(s), "]", " ">>

\* _fmtHeader (_out, s): what the stored callback puts on the stream
HeaderText(h, s, t) ==
  CASE h = "_formatHeader" -> _formatHeader(s, t)
    [] h = "level2str" -> level2str(s)
    [] h = "FOO" -> FOO(s)

\* the constructor arguments after the stream
SingleArgs ==
  {<<>>} \cup {<<s>> : s \in Severity}
    \cup {<<s, h>> : s \in Severity, h \in Headers}

SingleLogger(args) ==
  [_severity |-> IF Len(args) >= 1 THEN args[1] ELSE kInfo,
   _fmtHeader |-> IF Len(args) >= 2 THEN args[2] ELSE "_formatHeader"]

InitSingle ==
  /\ \E args \in SingleArgs :
       /\ _severity = SingleLogger(args)._severity
       /\ _fmtHeader = SingleLogger(args)._fmtHeader
       /\ lastSet = SingleLogger(args)._severity
  /\ _transport = <<>>
  /\ now = 0
  /\ pc = "idle"
  /\ cur = NoCall
  /\ invoked = <<>>
  /\ out = Untouched
  /\ registered = <<>>
  /\ threwAt = 0
  /\ hist = NoHistory
  /\ thr = NoThreads
  /\ named = NoObject

\* a level method that puts a newline after the message
LevelMethod_eol(name, s, in) ==
  /\ pc = "idle"
  /\ cur' = [NoCall EXCEPT !.op = name, !.s = s, !.enabled = isEnabled(s),
                           !.msg = format(in.fmt, in.args), !.via = "single"]
  /\ IF isEnabled(s)
     THEN \E clock \in ClockTimes, zone \in Zones :
            LET t == localtime(clock, zone)
            IN /\ invoked' = <<[s |-> s, h |-> _fmtHeader, tm |-> t]>>
               /\ out' = [Untouched EXCEPT !["A"] =
                            <<HeaderText(_fmtHeader, s, t),
                              format(in.fmt, in.args), <<"\n">> >>]
     ELSE /\ invoked' = <<>>
          /\ out' = Untouched
  /\ UNCHANGED <<_severity, _transport, now, pc, lastSet, registered,
                 threwAt, hist, thr, named, _fmtHeader>>

\* the body the six level methods share:
\*   if (isEnabled (kX)) { _fmtHeader (_out, kX); fmtlib::print (_out, fmt, args...); }
\* invoked records the call of the header callback, with the time it read
LevelMethod(name, s, in) ==
  /\ pc = "idle"
  /\ cur' = [NoCall EXCEPT !.op = name, !.s = s, !.enabled = isEnabled(s),
                           !.msg = format(in.fmt, in.args), !.via = "single"]
  /\ IF isEnabled(s)
     THEN \E clock \in ClockTimes, zone \in Zones :
            LET t == localtime(clock, zone)
            IN /\ invoked' = <<[s |-> s, h |-> _fmtHeader, tm |-> t]>>
               /\ out' = [Untouched EXCEPT !["A"] =
                            <<HeaderText(_fmtHeader, s, t),
                              format(in.fmt, in.args)>>]
     ELSE /\ invoked' = <<>>
          /\ out' = Untouched
  /\ UNCHANGED <<_severity, _transport, now, pc, lastSet, registered,
                 threwAt, hist, thr, named, _fmtHeader>>

single_verbose(in) == LevelMethod("verbose", kVerbose, in)

single_debug(in) == LevelMethod("debug", kDebug, in)

single_info(in) == LevelMethod("info", kInfo, in)

single_warn(in) == LevelMethod("warn", kWarn, in)

single_error(in) == LevelMethod("error", kError, in)

single_fatal(in) == LevelMethod("fatal", kFatal, in)

NextSingle ==
  \/ \E s \in Severity : SetLevel(s)
  \/ GetLevel
  \/ \E in \in LogInputs : single_verbose(in)
  \/ \E in \in LogInputs : single_debug(in)
  \/ \E in \in LogInputs : single_info(in)
  \/ \E in \in LogInputs : single_warn(in)
  \/ \E in \in LogInputs : single_error(in)
  \/ \E in \in LogInputs : single_fatal(in)

SpecSingle == InitSingle /\ [][NextSingle]_vars

\* ------------------------------------------------------------- the claims
\* the order the specification gives the levels:
\* Verbose < Debug < Info < Warn < Error < Fatal < None
SeverityOrder == <<kVerbose, kDebug, kInfo, kWarn, kError, kFatal, kNone>>

Rank(s) == CHOOSE i \in 1..Len(SeverityOrder) : SeverityOrder[i] = s

AtLeast(s, t) == Rank(s) >= Rank(t)

LogCall == cur.op = "log"

Over == cur.status # "running"

\* C1: a log call of severity s reaches the transports iff s >= t in the
\* order Verbose < ... < None (s = t included), t being the constructor
\* argument or the argument of the latest setLevel; isEnabled(s) returns
\* exactly that decision.
C1_Gating ==
  /\ \A s \in Severity : isEnabled(s) <=> AtLeast(s, lastSet)
  /\ LogCall => (cur.enabled <=> AtLeast(cur.s, lastSet))
  /\ LogCall /\ invoked # <<>> => AtLeast(cur.s, lastSet)
  /\ LogCall /\ Over /\ registered # <<>>
       => (invoked # <<>> <=> AtLeast(cur.s, lastSet))
  /\ LogCall /\ cur.status = "returned" /\ AtLeast(cur.s, lastSet)
       => Len(invoked) = Len(registered)

\* a call at exactly the threshold went through to both transports
C1_Witness ==
  /\ LogCall /\ cur.status = "returned"
  /\ cur.s = kWarn /\ lastSet = kWarn
  /\ Len(invoked) = 2

\* C2: a log call below the threshold has no observable effect: no transport
\* is invoked, nothing is written, the message is not formatted, the clock is
\* not read, and the threshold and the transport sequence stay as they were.
C2_DisabledNoEffect ==
  [][ (pc = "idle" /\ cur'.op = "log" /\ cur' # cur
         /\ ~AtLeast(cur'.s, _severity))
      => /\ invoked' = <<>>
         /\ out' = Untouched
         /\ cur'.formats = 0
         /\ cur'.clockReads = 0
         /\ cur'.status = "returned"
         /\ pc' = "idle"
         /\ _severity' = _severity
         /\ _transport' = _transport ]_vars

\* an info call under threshold Warn with two transports registered
C2_Witness ==
  /\ LogCall /\ ~cur.enabled
  /\ cur.s = kInfo /\ _severity = kWarn
  /\ Len(_transport) = 2
  /\ invoked = <<>>

\* C3: within one log call the transports are invoked in registration order:
\* the k-th invocation is of the transport registered k-th, so for i < j
\* transport i has observed the message before transport j.
C3_RegistrationOrder ==
  LogCall =>
    /\ Len(invoked) <= Len(registered)
    /\ \A k \in 1..Len(invoked) : invoked[k].t = registered[k]

\* two different transports, both invoked
C3_Witness ==
  /\ LogCall /\ Len(invoked) = 2
  /\ registered[1] # registered[2]
  /\ invoked[1].t = registered[1] /\ invoked[2].t = registered[2]

\* C4: for one enabled log call the message is formatted once and the clock
\* read once, before the first transport is invoked and whatever the number
\* of transports; every transport receives the same text, severity and
\* timestamp.
C4_FanOutIdentity ==
  LogCall /\ cur.enabled =>
    /\ cur.formats = 1
    /\ cur.clockReads = 1
    /\ cur.ts <= now
    /\ \A j \in 1..Len(cur.msg) : cur.msg[j] # "{}"
    /\ \A k \in 1..Len(invoked) :
         /\ invoked[k].msg = cur.msg
         /\ invoked[k].s = cur.s
         /\ invoked[k].ts = cur.ts
    /\ \A k, l \in 1..Len(invoked) :
         /\ invoked[k].msg = invoked[l].msg
         /\ invoked[k].s = invoked[l].s
         /\ invoked[k].ts = invoked[l].ts

\* the clock moved on during the fan-out and both transports still got the
\* timestamp of the gate
C4_Witness ==
  /\ LogCall /\ Len(invoked) = 2
  /\ now > cur.ts
  /\ invoked[1].ts = invoked[2].ts
  /\ invoked[2].msg = <<"x=", "5">>

\* C5: when no transport fails, an enabled log call invokes every transport
\* registered before it exactly once: none skipped, none invoked twice.
C5_EveryTransportOnce ==
  LogCall /\ cur.enabled /\ cur.status = "returned" =>
    /\ Len(invoked) = Len(registered)
    /\ cur.size = Len(registered)
    /\ \A i \in 1..Len(registered) :
         Cardinality({k \in 1..Len(invoked) : invoked[k].pos = i}) = 1
    /\ \A k \in 1..Len(invoked) : invoked[k].t = registered[invoked[k].pos]

\* two registrations and a setLevel, then a call that returned normally
C5_Witness ==
  /\ LogCall /\ cur.enabled /\ cur.status = "returned"
  /\ Len(registered) = 2
  /\ Len(invoked) = 2
  /\ \A k \in 1..2 : invoked[k].outcome = "ok"

\* C6: setLevel(x) returns the threshold in effect immediately before the
\* call, a getLevel() issued after it returns x, and getLevel() leaves the
\* threshold as it is.
C6_SetLevelExchange ==
  [][ /\ (cur'.op = "setLevel" /\ (cur' # cur \/ _severity' # _severity))
         => /\ cur'.ret = _severity
            /\ _severity' = cur'.s
            /\ lastSet' = cur'.s
      /\ (cur'.op = "getLevel" /\ cur' # cur)
         => /\ cur'.ret = lastSet
            /\ _severity' = _severity ]_vars

\* setLevel(Error) under threshold Fatal returned Fatal
C6_Witness ==
  /\ cur.op = "setLevel"
  /\ cur.s = kError /\ cur.ret = kFatal
  /\ _severity = kError

\* C7: the transport sequence is append-only: it is always the list of the
\* registered instances in registration order, transport(instance) appends
\* exactly that instance at the end, and no operation removes or reorders.
C7_AppendOnly ==
  /\ [](_transport = registered)
  /\ [][ \/ _transport' = _transport
         \/ /\ cur'.op = "transport"
            /\ registered' # registered
            /\ _transport' = Append(_transport, registered'[Len(registered')]) ]_vars

\* two registrations, a failed log call and a later one that returned
C7_Witness ==
  /\ Len(_transport) = 2 /\ _transport[1] # _transport[2]
  /\ LogCall /\ cur.status = "returned" /\ cur.afterThrow > 0

Registrations(d) == {k \in 1..Len(registered) : registered[k].dest = d}

\* C8: registration does not deduplicate: every registration is an element
\* of its own that an enabled log call invokes once, so two registrations of
\* one type against two destinations deliver the message to both, and two
\* against one destination deliver it there twice.
C8_NoDeduplication ==
  ( /\ LogCall /\ cur.enabled /\ cur.status = "returned"
    /\ \A k \in 1..Len(invoked) : invoked[k].outcome = "ok" )
  => /\ Len(invoked) = Len(registered)
     /\ \A d \in Dest :
          /\ Len(out[d]) = Cardinality(Registrations(d))
          /\ \A n \in 1..Len(out[d]) : out[d][n][5] = cur.msg

\* two OutputStream transports over two streams: each stream has the message
C8_Witness ==
  /\ LogCall /\ cur.status = "returned"
  /\ registered = << [kind |-> "OutputStream", dest |-> "A"],
                     [kind |-> "OutputStream", dest |-> "B"] >>
  /\ Len(out["A"]) = 1 /\ Len(out["B"]) = 1
  /\ out["A"][1][5] = <<"x=", "5">> /\ out["B"][1] = out["A"][1]

\* C9: fan-out is fail-fast: when the transport at position i throws, the
\* transports before it have each been invoked once, those after it are not
\* invoked for that call, and the failure reaches the caller.
C9_FailFast ==
  LogCall =>
    /\ \A k \in 1..Len(invoked) :
         invoked[k].outcome = "threw"
           => /\ k = Len(invoked)
              /\ cur.status = "threw"
              /\ pc = "idle"
    /\ cur.status = "threw"
         => /\ invoked # <<>>
            /\ invoked[Len(invoked)].outcome = "threw"
            /\ Len(invoked) <= Len(registered)
            /\ \A k \in 1..Len(invoked) :
                 /\ invoked[k].pos = k
                 /\ invoked[k].t = registered[k]
            /\ \A d \in Dest :
                 Len(out[d]) <= Cardinality({k \in 1..(Len(invoked) - 1) :
                                               registered[k].dest = d})

\* the first of two transports threw: the second was never invoked
C9_Witness ==
  /\ LogCall /\ cur.status = "threw"
  /\ Len(registered) = 2
  /\ Len(invoked) = 1

\* C10: a transport failure triggers no recovery: the failing transport is
\* invoked once (no retry), nothing else is written in its place, the
\* threshold and the transport sequence are after the failed call what they
\* were before it, and the next enabled log call invokes every registered
\* transport again, the one that failed included.
C10_NoRecovery ==
  /\ [][ (cur.status = "running" /\ cur'.status = "threw")
         => /\ _severity' = _severity
            /\ _transport' = _transport
            /\ Len(invoked') = Len(invoked) + 1
            /\ out' = out ]_vars
  /\ []( LogCall /\ cur.status = "threw"
           => /\ threwAt = Len(invoked)
              /\ Cardinality({k \in 1..Len(invoked) :
                                invoked[k].pos = threwAt}) = 1 )
  /\ []( LogCall /\ cur.status = "returned" /\ cur.afterThrow > 0
           => /\ Len(invoked) = Len(_transport)
              /\ \E k \in 1..Len(invoked) :
                   /\ invoked[k].pos = cur.afterThrow
                   /\ invoked[k].t = registered[cur.afterThrow] )

\* the call after a throw at position 2 went through both transports
C10_Witness ==
  /\ LogCall /\ cur.status = "returned"
  /\ cur.afterThrow = 2
  /\ Len(invoked) = 2
  /\ invoked[2].outcome = "ok"

FailedWrite(k) ==
  /\ invoked[k].t.kind = "OutputStream"
  /\ invoked[k].outcome \in {"silent", "threw"}

\* C11: when the destination of an OutputStream transport fails
\* a write, OutputStream::log fails and the failure reaches the caller of the
\* level method, so the transports registered after it are not invoked.
C11_WriteFailurePropagates ==
  LogCall =>
    \A k \in 1..Len(invoked) :
      FailedWrite(k) => /\ k = Len(invoked)
                        /\ cur.status = "threw"
                        /\ pc = "idle"

\* C12: no transport ever receives a message whose severity is None, the
\* generic log (severity, ...) included.
C12_NeverNone ==
  \A k \in 1..Len(invoked) : invoked[k].s # kNone

\* C13: while the threshold is None no log operation, with any severity
\* argument, invokes a transport.
C13_NoneSuppressesAll ==
  LogCall /\ lastSet = kNone => /\ ~cur.enabled
                                /\ invoked = <<>>

LevelMethods == {"verbose", "debug", "info", "warn", "error", "fatal"}

FixedLevel(m) ==
  CASE m = "verbose" -> kVerbose
    [] m = "debug" -> kDebug
    [] m = "info" -> kInfo
    [] m = "warn" -> kWarn
    [] m = "error" -> kError
    [] m = "fatal" -> kFatal

\* C14: a call of verbose, debug, info, warn, error or fatal does what log
\* does with the fixed severity of that method: in the state of the call it
\* leaves the record that log (fixed severity, same template and arguments)
\* leaves, takes the same gating decision, and every transport invocation
\* that follows carries that severity and that message.
C14_WrapperIsLog ==
  [][ /\ (pc = "idle" /\ cur'.via \in LevelMethods /\ cur' # cur) =>
           /\ \E in \in LogInputs :
                [cur' EXCEPT !.via = "log"]
                  = LogRecord("log", FixedLevel(cur'.via), in)
           /\ cur'.enabled <=> AtLeast(FixedLevel(cur'.via), lastSet)
           /\ pc' = IF isEnabled(FixedLevel(cur'.via)) THEN "fanout" ELSE "idle"
           /\ invoked' = <<>>
      /\ cur'.via \in LevelMethods =>
           \A k \in 1..Len(invoked') :
             /\ invoked'[k].s = FixedLevel(cur'.via)
             /\ invoked'[k].msg = cur'.msg ]_vars

\* warn was called at threshold Debug and both transports were invoked
\* with severity Warn
C14_Witness ==
  /\ cur.via = "warn" /\ cur.status = "returned" /\ cur.enabled
  /\ lastSet = kDebug
  /\ Len(invoked) = 2
  /\ \A k \in 1..2 : invoked[k].s = kWarn /\ invoked[k].outcome = "ok"

SixLevels == {kVerbose, kDebug, kInfo, kWarn, kError, kFatal}

SeverityLetter(s) ==
  CASE s = kVerbose -> "V"
    [] s = kDebug -> "D"
    [] s = kInfo -> "I"
    [] s = kWarn -> "W"
    [] s = kError -> "E"
    [] s = kFatal -> "F"

IsDigit(c) == c \in {"0", "1", "2", "3", "4", "5", "6", "7", "8", "9"}

\* YYYY-MM-DDTHH:MM:SS, one character per element
StampShape(st) ==
  /\ Len(st) = 19
  /\ \A i \in {1, 2, 3, 4, 6, 7, 9, 10, 12, 13, 15, 16, 18, 19} : IsDigit(st[i])
  /\ st[5] = "-" /\ st[8] = "-" /\ st[11] = "T"
  /\ st[14] = ":" /\ st[17] = ":"

Last(q) == q[Len(q)]

\* C15: a call of OutputStream.log that the destination accepts, for a
\* severity that has a letter, appends exactly one record to what the
\* destination held: the timestamp as YYYY-MM-DDTHH:MM:SS, one space, the
\* severity letter, ": ", the message unchanged (an embedded newline stays
\* where it is, an empty message stays empty) and one newline; a write the
\* destination refuses appends nothing.
C15_OneRecordPerCall ==
  [][ invoked' # <<>> =>
        LET call == invoked'[1]
            before == out[TheStream.dest]
            after == out'[TheStream.dest]
        IN /\ (call.outcome = "ok" /\ call.s \in SixLevels) =>
                /\ Len(after) = Len(before) + 1
                /\ SubSeq(after, 1, Len(before)) = before
                /\ Len(Last(after)) = 6
                /\ StampShape(Last(after)[1])
                /\ Last(after) = <<Last(after)[1], " ", SeverityLetter(call.s),
                                   ": ", call.msg, "\n">>
           /\ call.outcome # "ok" => after = before
           /\ \A d \in Dest \ {TheStream.dest} : out'[d] = out[d] ]_vars

\* the empty message of the test, then a message with a newline inside
C15_Witness ==
  /\ cur.op = "OutputStream.log"
  /\ Len(out["A"]) = 2
  /\ out["A"][1] = << <<"1", "9", "7", "0", "-", "0", "1", "-", "1", "5", "T",
                        "0", "6", ":", "5", "6", ":", "0", "7">>,
                      " ", "D", ": ", <<>>, "\n" >>
  /\ out["A"][2][5] = <<"a", "\n", "b">>
  /\ out["A"][2][6] = "\n"

DigitVal(c) ==
  CASE c = "0" -> 0 [] c = "1" -> 1 [] c = "2" -> 2 [] c = "3" -> 3
    [] c = "4" -> 4 [] c = "5" -> 5 [] c = "6" -> 6 [] c = "7" -> 7
    [] c = "8" -> 8 [] c = "9" -> 9

Num2(st, i) == DigitVal(st[i]) * 10 + DigitVal(st[i + 1])

\* days from 1970-01-01 to the civil date y-m-d (proleptic Gregorian)
DaysFromCivil(y, m, d) ==
  LET yy == IF m <= 2 THEN y - 1 ELSE y
      era == yy \div 400
      yoe == yy - era * 400
      mp == IF m > 2 THEN m - 3 ELSE m + 9
      doy == (153 * mp + 2) \div 5 + d - 1
      doe == yoe * 365 + yoe \div 4 - yoe \div 100 + doy
  IN era * 146097 + doe - 719468

DaysIn(y, m) ==
  IF m = 2
  THEN (IF (y % 4 = 0 /\ y % 100 # 0) \/ y % 400 = 0 THEN 29 ELSE 28)
  ELSE IF m \in {4, 6, 9, 11} THEN 30 ELSE 31

\* st names a real UTC second and ts lies in [1000 * second, 1000 * second + 999]
IsSecondOf(st, ts) ==
  LET y == Num2(st, 1) * 100 + Num2(st, 3)
      m == Num2(st, 6)
      d == Num2(st, 9)
      h == Num2(st, 12)
      mi == Num2(st, 15)
      sec == Num2(st, 18)
      q == ts.hi * 10 - DaysFromCivil(y, m, d) * 864
  IN /\ m \in 1..12 /\ d \in 1..DaysIn(y, m)
     /\ h \in 0..23 /\ mi \in 0..59 /\ sec \in 0..59
     /\ q \in 0..864
     /\ q * 100000 + ts.lo - (h * 3600 + mi * 60 + sec) * 1000 \in 0..999

SameSecond(ts, ts2) == ts.hi = ts2.hi /\ ts.lo \div 1000 = ts2.lo \div 1000

\* C16: for every ts >= 0 the record OutputStream.log writes starts with the
\* UTC date and time of second floor(ts / 1000); every ts of the same second
\* renders the same text; 1234567890 renders as 1970-01-15T06:56:07 and
\* 987654321000 as 2001-04-19T04:25:21.
C16_RendersFloorSecond ==
  (invoked # <<>> /\ invoked[1].outcome = "ok") =>
    LET st == Last(out[TheStream.dest])[1]
        ts == invoked[1].ts
    IN /\ StampShape(st)
       /\ IsSecondOf(st, ts)
       /\ \A ts2 \in TimeInputs : SameSecond(ts, ts2) => TimeStamp(ts2) = {st}
       /\ ts = [hi |-> 1234, lo |-> 567890] =>
            st = <<"1", "9", "7", "0", "-", "0", "1", "-", "1", "5", "T",
                   "0", "6", ":", "5", "6", ":", "0", "7">>
       /\ ts = [hi |-> 987654, lo |-> 321000] =>
            st = <<"2", "0", "0", "1", "-", "0", "4", "-", "1", "9", "T",
                   "0", "4", ":", "2", "5", ":", "2", "1">>

\* C17: the display code of the six levels is V, D, I, W, E, F, one letter
\* per level and no letter twice, and it is the letter OutputStream writes
\* in a record of that severity.
C17_LetterMapping ==
  /\ \A s \in SixLevels : toCString(s) = {SeverityLetter(s)}
  /\ \A s, t \in SixLevels : toCString(s) = toCString(t) => s = t
  /\ (invoked # <<>> /\ invoked[1].outcome = "ok" /\ invoked[1].s \in SixLevels)
       => Last(out[TheStream.dest])[3] = SeverityLetter(invoked[1].s)

\* a Fatal record was written with the letter F after a Warn record with W
C17_Witness ==
  /\ Len(out["A"]) = 2
  /\ invoked # <<>> /\ invoked[1].s = kFatal /\ invoked[1].outcome = "ok"
  /\ out["A"][1][3] = "W" /\ out["A"][2][3] = "F"

\* C18: the threshold is one of the seven Severity values; it is the
\* constructor argument, Info when none was given, until the first setLevel
\* and the argument of the latest setLevel afterwards; from any value
\* setLevel reaches any value in one step; no other operation changes it.
C18_ThresholdMachine ==
  /\ [](/\ _severity \in Severity
        /\ Cardinality(Severity) = 7
        /\ _severity = lastSet
        /\ Logger(<<>>) = kInfo
        /\ \A s \in Severity : Logger(<<s>>) = s
        /\ pc = "idle" => \A x \in Severity : ENABLED (SetLevel(x) /\ _severity' = x))
  /\ [][_severity' # _severity =>
          /\ cur'.op = "setLevel"
          /\ cur'.s = _severity'
          /\ lastSet' = _severity']_vars

\* one setLevel took the threshold from None down to Verbose
C18_Witness ==
  /\ cur.op = "setLevel" /\ cur.ret = kNone /\ cur.s = kVerbose
  /\ _severity = kVerbose /\ lastSet = kVerbose

\* the invocations of call c, as positions in the history
Of(c) == {i \in 1..Len(hist.seen) : hist.seen[i].call = c}

\* call c is over: a later call was issued, or nothing is running
CallOver(c) == c < hist.n \/ pc # "fanout"

\* C19: log calls issued one after the other by one thread are observed in
\* that order: no invocation of an earlier call comes after an invocation
\* of a later one, so every transport sees A before B; and when the next
\* call is issued the earlier one has made all its invocations, positions
\* 1, 2, ... up to the end of the list or to the transport that threw.
C19_CallsInOrder ==
  /\ \A i, j \in 1..Len(hist.seen) :
       i < j => /\ hist.seen[i].call <= hist.seen[j].call
                /\ (hist.seen[i].t = hist.seen[j].t
                    /\ hist.seen[i].pos = hist.seen[j].pos)
                     => hist.seen[i].call < hist.seen[j].call
  /\ \A c \in 1..hist.n :
       /\ \A i \in Of(c) :
            /\ hist.seen[i].pos = 1 + Cardinality({j \in Of(c) : j < i})
            /\ hist.seen[i].t = registered[hist.seen[i].pos]
       /\ (CallOver(c) /\ Of(c) # {}) =>
            \E i \in Of(c) :
              /\ \A j \in Of(c) : j <= i
              /\ \/ hist.seen[i].pos = hist.seen[i].of
                 \/ hist.seen[i].outcome \in {"threw", "crashed"}

\* two enabled calls on two transports: both saw the first call first
C19_Witness ==
  /\ hist.on /\ hist.n = 2 /\ pc = "idle"
  /\ Len(hist.seen) = 4
  /\ hist.seen[1].call = 1 /\ hist.seen[2].call = 1
  /\ hist.seen[3].call = 2 /\ hist.seen[4].call = 2
  /\ hist.seen[1].t = hist.seen[3].t /\ hist.seen[2].t = hist.seen[4].t
  /\ hist.seen[1].t # hist.seen[2].t

Alive == \A u \in Threads : thr[u].pc # "crashed"

TheInput == [fmt |-> <<"x=", "{}">>, args |-> <<"5">>]

\* C21: nothing orders the log calls of two threads: a thread that has not
\* logged yet can enter log whatever the other thread is doing, a thread
\* inside its range-for can always take its next invocation, and the only
\* order kept is the one inside each call (positions go up).  So the two
\* fan-outs interleave, and one transport can see A before B while the other
\* sees B before A.
C21_NoOrderAcrossThreads ==
  /\ \A th \in Threads :
       /\ (Alive /\ thr[th].pc = "idle" /\ ~thr[th].logged /\ hist.n < MaxCalls)
            => ENABLED ThreadLogGate(th, kInfo, TheInput)
       /\ (Alive /\ thr[th].pc = "fanout" /\ thr[th].it <= thr[th].end)
            => ENABLED ThreadLogVisit(th)
  /\ \A i, j \in 1..Len(hist.seen) :
       (i < j /\ hist.seen[i].call = hist.seen[j].call)
         => hist.seen[i].pos < hist.seen[j].pos

\* the first transport saw call 1 then call 2, the second call 2 then call 1
C21_Witness ==
  /\ Len(hist.seen) = 4
  /\ \A i \in 1..4 : hist.seen[i].outcome = "ok"
  /\ hist.seen[1].call = 1 /\ hist.seen[1].pos = 1
  /\ hist.seen[2].call = 2 /\ hist.seen[2].pos = 1
  /\ hist.seen[3].call = 2 /\ hist.seen[3].pos = 2
  /\ hist.seen[4].call = 1 /\ hist.seen[4].pos = 2
  /\ Len(registered) = 2
  /\ Len(out[registered[1].dest]) = 4

\* C22: the threshold is read once per log call, at the gate: the decision
\* taken there is the comparison with the threshold of that moment and stays
\* what it is; a setLevel that comes later does not stop the call.  A call
\* that returned without a transport failure reached none of the transports
\* (gate closed) or every transport that was registered when it began.
C22_GateReadOnce ==
  /\ [](\A th \in Threads :
          /\ (thr[th].logged /\ thr[th].pc = "idle"
              /\ thr[th].status = "returned") =>
                IF thr[th].enabled
                THEN 1..thr[th].size
                       \subseteq {hist.seen[i].pos : i \in Of(thr[th].call)}
                ELSE Of(thr[th].call) = {}
          /\ (Alive /\ thr[th].pc = "fanout" /\ thr[th].it <= thr[th].end
              /\ ~isEnabled(thr[th].s)) => ENABLED ThreadLogVisit(th))
  /\ [][\A th \in Threads :
          /\ thr[th].logged => thr'[th].enabled = thr[th].enabled
          /\ (~thr[th].logged /\ thr'[th].logged) =>
               (thr'[th].enabled <=> AtLeast(thr'[th].s, lastSet))]_vars

\* a call passed the gate at Info, the threshold is Error by now, and the
\* call went on to its second transport and returned
C22_Witness ==
  \E th \in Threads :
    /\ thr[th].logged /\ thr[th].enabled /\ thr[th].status = "returned"
    /\ thr[th].s = kInfo /\ _severity = kError
    /\ thr[th].size = 2
    /\ Cardinality(Of(thr[th].call)) = 2
    /\ \E u \in Threads : thr[u].logged /\ ~thr[u].enabled

\* C23: a log call reaches only the transports registered before it began:
\* no invocation at a position beyond the element count the call found.
C23_OnlyRegisteredBefore ==
  \A i \in 1..Len(hist.seen) : hist.seen[i].pos <= hist.seen[i].of

\* the calls transport position k was invoked for, oldest first
Observed(k) ==
  LET AtK(e) == e.pos = k
      q == SelectSeq(hist.seen, AtK)
  IN [n \in 1..Len(q) |-> q[n].call]

\* the calls that passed the gate when the list had at least k elements
LoggedSince(k) ==
  LET FirstOfCall(e) == e.pos = 1 /\ e.of >= k
      q == SelectSeq(hist.seen, FirstOfCall)
  IN [n \in 1..Len(q) |-> q[n].call]

IsSuffix(a, b) ==
  /\ Len(a) <= Len(b)
  /\ a = SubSeq(b, Len(b) - Len(a) + 1, Len(b))

C25_LetterIndexInTable ==
  \A k \in 1..Len(invoked) :
    invoked[k].t.kind = "OutputStream" =>
      /\ invoked[k].s \in 0..(Len(kStrLevels) - 1)
      /\ toCString(invoked[k].s) \subseteq {kStrLevels[n] : n \in 1..Len(kStrLevels)}

\* C26: each operation changes its own part and nothing else: log, enabled
\* or not and at every step of its fan-out, leaves threshold and transport
\* list as they are; setLevel leaves the list and invokes no transport;
\* transport leaves the threshold and invokes no transport; getLevel and
\* isEnabled leave both and invoke nothing.
C26_Frames ==
  [][ /\ (cur'.op = "log" \/ pc = "fanout") =>
           /\ _severity' = _severity
           /\ _transport' = _transport
      /\ cur'.op = "setLevel" =>
           /\ _transport' = _transport
           /\ invoked' = <<>> /\ out' = Untouched
           /\ pc' = "idle"
      /\ cur'.op = "transport" =>
           /\ _severity' = _severity
           /\ invoked' = <<>> /\ out' = Untouched
           /\ pc' = "idle"
      /\ cur'.op \in {"getLevel", "isEnabled"} =>
           /\ _severity' = _severity
           /\ _transport' = _transport
           /\ invoked' = <<>> /\ out' = Untouched
           /\ pc' = "idle" ]_vars

\* a transport was registered while the threshold was Fatal: the threshold
\* is still Fatal and the list has its two elements
C26_Witness ==
  /\ cur.op = "transport"
  /\ _severity = kFatal /\ lastSet = kFatal
  /\ Len(_transport) = 2
  /\ invoked = <<>>

\* the elements made from the caller's object that the caller's object no
\* longer agrees with, or that outlived it
Parted(k) == k \in named.given /\ named.obj # registered[k]

\* C27: the Logger calls its own element, made at registration: every
\* invocation of a log call -- whether the element came from a temporary or
\* from an object the caller kept, changed or destroyed since -- is made on
\* the transport as it was when it was passed to transport(), and what it
\* writes goes to the stream that transport referred to then and to no other.
C27_StoredByValue ==
  [][ (pc = "fanout" /\ pc' # "crashed" /\ invoked' # invoked) =>
        LET k == cur.it
            r == Last(invoked')
        IN /\ Len(invoked') = Len(invoked) + 1
           /\ k \in 1..Len(registered)
           /\ r.pos = k /\ r.t = registered[k]
           /\ \A d \in Dest : d # registered[k].dest => out'[d] = out[d]
           /\ r.outcome = "ok" => out'[registered[k].dest] # out[registered[k].dest]
    ]_vars

\* a log call reached stream A through an element copied from the caller's
\* object although the caller has pointed that object at stream B since
C27_Witness ==
  /\ cur.op = "log" /\ cur.status = "returned"
  /\ Len(invoked) = 2
  /\ Parted(1) /\ Holds /\ named.obj.dest = "B"
  /\ ~(2 \in named.given)
  /\ invoked[1].outcome = "ok" /\ invoked[1].t.dest = "A"
  /\ out["A"] # <<>>

SingleMethods ==
  [verbose |-> kVerbose, debug |-> kDebug, info |-> kInfo, warn |-> kWarn,
   error |-> kError, fatal |-> kFatal]

SingleCall == cur.via = "single" /\ cur.op \in DOMAIN SingleMethods

\* C28: a level method of the single-stream Logger puts something on the
\* stream iff its level is at or above the threshold; when it does, the
\* header callback was called exactly once, with that level, and the stream
\* received the header's text and then the formatted message and nothing
\* after it.
C28_HeaderThenMessage ==
  SingleCall =>
    LET s == SingleMethods[cur.op]
    IN /\ out["A"] # <<>> <=> AtLeast(s, lastSet)
       /\ out["B"] = <<>>
       /\ AtLeast(s, lastSet) =>
            /\ Len(invoked) = 1
            /\ invoked[1].s = s /\ invoked[1].h = _fmtHeader
            /\ Len(out["A"]) = 2
            /\ out["A"][1] = HeaderText(_fmtHeader, s, invoked[1].tm)
            /\ out["A"][2] = cur.msg
       /\ ~AtLeast(s, lastSet) => invoked = <<>>

\* warn passed a threshold set to Debug by setLevel: the test's header, then
\* the message "x=5", with no newline
C28_Witness ==
  /\ cur.op = "warn" /\ cur.via = "single"
  /\ lastSet = kDebug /\ _fmtHeader = "level2str"
  /\ out["A"] = << <<"W", " ", "-", ">", " ">>, <<"x=", "5">> >>

DefaultHeaderCall ==
  SingleCall /\ _fmtHeader = "_formatHeader" /\ invoked # <<>>

\* the header the documentation shows: calendar year in four digits, "/",
\* month, "/", day, " ", HH:MM:SS, " ", the letter, ": "
DocumentedHeader(s, t) ==
  Pad4(t.tm_year + 1900) \o <<"/">> \o Pad2(t.tm_mon + 1) \o <<"/">>
    \o Pad2(t.tm_mday) \o <<" ">> \o Pad2(t.tm_hour) \o <<":">>
    \o Pad2(t.tm_min) \o <<":">> \o Pad2(t.tm_sec) \o <<" ">>
    \o <<SeverityLetter(s)>> \o <<":", " ">>

\* C29: with the default header, what a level method puts first on the
\* stream is the local time as YYYY/MM/DD HH:MM:SS with the four-digit
\* calendar year, a space, the severity letter and ": "; a warning at
\* 2023-08-26 18:45:09 local time starts with "2023/08/26 18:45:09 W: ".
C29_DefaultHeaderText ==
  DefaultHeaderCall =>
    /\ out["A"][1] = DocumentedHeader(invoked[1].s, invoked[1].tm)
    /\ (cur.op = "warn"
        /\ invoked[1].tm = [tm_year |-> 123, tm_mon |-> 7, tm_mday |-> 26,
                            tm_hour |-> 18, tm_min |-> 45, tm_sec |-> 9]) =>
         out["A"][1] = <<"2", "0", "2", "3", "/", "0", "8", "/", "2", "6", " ",
                         "1", "8", ":", "4", "5", ":", "0", "9", " ",
                         "W", ":", " ">>

\* C30: with a header callback that prints the integer value of the
\* severity it is given, the callback that info calls is given the value 1
\* and the one that error calls the value 3.
C30_InfoIsOneErrorIsThree ==
  (SingleCall /\ _fmtHeader = "FOO" /\ invoked # <<>>) =>
    /\ cur.op = "info" =>
         /\ invoked[1].s = 1
         /\ IntText(invoked[1].s) = "1"
    /\ cur.op = "error" =>
         /\ invoked[1].s = 3
         /\ IntText(invoked[1].s) = "3"
====
